---- MODULE Spec2Model ----
(***************************************************************************)
(* Mistral Fact Checker: the browser UI (PasswordGate, the Home page, the  *)
(* FactChecker form, the FactCard result view and the axios client) as a   *)
(* state machine, together with the HTTP API it calls.  The API server is  *)
(* not part of the sources; it is modelled from the specification (§4.1,   *)
(* §4.2, §6, §8) and every definition that does so says so.                *)
(*                                                                         *)
(* JavaScript values: null is JsNull, an object is JsObject(props) with    *)
(* props a function from the property names it has to their values, so     *)
(* that {} is JsObject(EmptyProps) and is truthy, unlike null.  Strings    *)
(* that the code trims are sequences of characters.  Numbers: rating is an *)
(* integer, confidence is counted in hundredths (100 stands for 1.0), file *)
(* sizes are counted in megabytes.                                         *)
(***************************************************************************)
EXTENDS Integers, Sequences, FiniteSets, TLC

VARIABLES
    envPassword,        \* process.env.NEXT_PUBLIC_APP_PASSWORD ("" when unset)
    sessionAuth,        \* sessionStorage['fact_checker_authenticated']
    pgIsAuthenticated,  \* PasswordGate state
    pgPassword,
    pgError,
    pgIsLoading,
    result,             \* Home state
    isLoading,
    inputType,          \* FactChecker state
    textInput,
    urlInput,
    selectedFile,
    previewUrl,
    error,
    objectUrls,         \* the object URLs created and not yet revoked
    inflight,           \* the HTTP requests issued and not yet settled
    submitPc            \* where the last handleSubmit call stands

vars == <<envPassword, sessionAuth, pgIsAuthenticated, pgPassword, pgError,
          pgIsLoading, result, isLoading, inputType, textInput, urlInput,
          selectedFile, previewUrl, error, objectUrls, inflight, submitPc>>

gateVars == <<pgIsAuthenticated, pgPassword, pgError, pgIsLoading>>
homeVars == <<result, isLoading>>
formVars == <<inputType, textInput, urlInput, selectedFile, previewUrl, error>>

-----------------------------------------------------------------------------
(* Bounds of the model *)

MaxTextLen == 2
MaxUrlLen == 1
MaxInFlight == 2

-----------------------------------------------------------------------------
(* JavaScript values *)

JsNull == [type |-> "null"]
JsUndefined == [type |-> "undefined"]
JsString(s) == [type |-> "string", value |-> s]
JsObject(props) == [type |-> "object", props |-> props]
EmptyProps == [p \in {} |-> 0]

\* ToBoolean: null, undefined and the empty string are falsy, objects truthy
Truthy(v) ==
    /\ v.type \notin {"null", "undefined"}
    /\ (v.type = "string" => v.value # "")

\* v?.key
OptionalChain(v, key) ==
    IF v.type = "object" /\ key \in DOMAIN v.props THEN v.props[key] ELSE JsUndefined

\* a || b
OrElse(a, b) == IF Truthy(a) THEN a ELSE b

Chars == {" ", "a"}
StringsUpTo(n) == UNION {[1..k -> Chars] : k \in 0..n}

RECURSIVE TrimStart(_)
TrimStart(s) == IF s # <<>> /\ Head(s) = " " THEN TrimStart(Tail(s)) ELSE s

RECURSIVE TrimEnd(_)
TrimEnd(s) ==
    IF s # <<>> /\ s[Len(s)] = " " THEN TrimEnd(SubSeq(s, 1, Len(s) - 1)) ELSE s

Trim(s) == TrimEnd(TrimStart(s))

Texts == StringsUpTo(MaxTextLen)
Urls == StringsUpTo(MaxUrlLen)

-----------------------------------------------------------------------------
(* types/index.ts *)

InputType == {"text", "url", "image"}

FactCheckResultFields ==
    {"rating", "explanation", "confidence", "analysis", "correct_aspects",
     "incorrect_aspects", "sources", "timestamp", "input_type"}


-----------------------------------------------------------------------------
(* PasswordGate.tsx *)

STORAGE_KEY_VALUE == JsString("true")
DefaultPassword == "mistral2025"
DocumentedPassword == "mistral2024"
IncorrectPasswordMessage == "Incorrect password. Please try again."

EnvPasswords == {"", "hunter2"}
Passwords == {"", DocumentedPassword, DefaultPassword, "hunter2"}

\* process.env.NEXT_PUBLIC_APP_PASSWORD || 'mistral2025'
CorrectPassword == IF envPassword # "" THEN envPassword ELSE DefaultPassword

\* the three render branches of PasswordGate
GateSpinnerShown == pgIsLoading
PasswordFormShown == ~pgIsLoading /\ ~pgIsAuthenticated
ChildrenShown == ~pgIsLoading /\ pgIsAuthenticated

\* mutant: the effect ends the loading state without reading session storage
PgMountEffectSkipsStorage ==
    /\ pgIsLoading
    /\ pgIsLoading' = FALSE
    /\ UNCHANGED <<envPassword, sessionAuth, pgIsAuthenticated, pgPassword, pgError,
                   homeVars, formVars, objectUrls, inflight, submitPc>>

\* useEffect: read the session-storage flag once, after the first render
PgMountEffect ==
    /\ pgIsLoading
    /\ pgIsAuthenticated' = (IF sessionAuth = STORAGE_KEY_VALUE THEN TRUE ELSE pgIsAuthenticated)
    /\ pgIsLoading' = FALSE
    /\ UNCHANGED <<envPassword, sessionAuth, pgPassword, pgError, homeVars, formVars,
                   objectUrls, inflight, submitPc>>

\* onChange of the password field
PgSetPassword(p) ==
    /\ PasswordFormShown
    /\ pgPassword' = p
    /\ UNCHANGED <<envPassword, sessionAuth, pgIsAuthenticated, pgError, pgIsLoading,
                   homeVars, formVars, objectUrls, inflight, submitPc>>

\* mutant: setIsAuthenticated(true) outside the comparison
PgHandleSubmitAuthAnyway ==
    /\ PasswordFormShown
    /\ pgPassword # ""
    /\ pgIsAuthenticated' = TRUE
    /\ IF pgPassword = CorrectPassword
       THEN /\ sessionAuth' = STORAGE_KEY_VALUE
            /\ pgError' = ""
            /\ UNCHANGED pgPassword
       ELSE /\ pgError' = IncorrectPasswordMessage
            /\ pgPassword' = ""
            /\ UNCHANGED sessionAuth
    /\ UNCHANGED <<envPassword, pgIsLoading, homeVars, formVars, objectUrls, inflight,
                   submitPc>>

\* mutant: handleSubmit without the leading setError('')
PgHandleSubmitKeepsError ==
    /\ PasswordFormShown
    /\ pgPassword # ""
    /\ IF pgPassword = CorrectPassword
       THEN /\ sessionAuth' = STORAGE_KEY_VALUE
            /\ pgIsAuthenticated' = TRUE
            /\ UNCHANGED <<pgPassword, pgError>>
       ELSE /\ pgError' = IncorrectPasswordMessage
            /\ pgPassword' = ""
            /\ UNCHANGED <<sessionAuth, pgIsAuthenticated>>
    /\ UNCHANGED <<envPassword, pgIsLoading, homeVars, formVars, objectUrls, inflight,
                   submitPc>>

\* handleSubmit of the password form; the field is `required`, so the browser
\* does not submit it empty
PgHandleSubmit ==
    /\ PasswordFormShown
    /\ pgPassword # ""
    /\ IF pgPassword = CorrectPassword
       THEN /\ sessionAuth' = STORAGE_KEY_VALUE
            /\ pgIsAuthenticated' = TRUE
            /\ pgError' = ""
            /\ UNCHANGED pgPassword
       ELSE /\ pgError' = IncorrectPasswordMessage
            /\ pgPassword' = ""
            /\ UNCHANGED <<sessionAuth, pgIsAuthenticated>>
    /\ UNCHANGED <<envPassword, pgIsLoading, homeVars, formVars, objectUrls, inflight,
                   submitPc>>

-----------------------------------------------------------------------------
(* page.tsx (Home): what the page renders *)

FactCardRendered == ChildrenShown /\ Truthy(result) /\ ~isLoading

\* FactCard evaluates result.rating.toFixed(1) while rendering: a TypeError when
\* the record has no rating, and with it the page is replaced by the error page
RenderThrows == FactCardRendered /\ "rating" \notin DOMAIN result.props

PageShown == ChildrenShown /\ ~RenderThrows
DescriptionShown == PageShown /\ ~Truthy(result) /\ ~isLoading
FactCheckerShown == PageShown /\ ~Truthy(result)
LoadingShown == PageShown /\ isLoading
FactCardShown == PageShown /\ Truthy(result) /\ ~isLoading

\* the submit button, the tabs and the inputs carry disabled={isLoading}
SubmitEnabled == FactCheckerShown /\ ~isLoading

\* mutant: handleFactCheckComplete without setIsLoading(false)
HandleFactCheckCompleteKeepsLoading(data) ==
    /\ result' = data
    /\ isLoading' = isLoading

HandleFactCheckComplete(data) ==
    /\ result' = data
    /\ isLoading' = FALSE

\* mutant: handleFactCheckStart without setIsLoading(true)
HandleFactCheckStartKeepsIdle ==
    /\ isLoading' = isLoading
    /\ result' = JsNull

HandleFactCheckStart ==
    /\ isLoading' = TRUE
    /\ result' = JsNull

-----------------------------------------------------------------------------
(* FactChecker.tsx: state and input handlers *)

PleaseSelectImageFile == "Please select an image file"
PleaseEnterText == "Please enter some text to fact-check"
PleaseEnterUrl == "Please enter a URL to fact-check"
PleaseSelectImage == "Please select an image to fact-check"
FailedToFactCheck == "Failed to fact-check. Please try again."

\* a File: its name, its MIME type as <<type, subtype>>, its size in MB
File(name, mime, size) == [type |-> "file", name |-> name, mime |-> mime, size |-> size]

\* mutant: file.type.includes('/'), true of every typed file
IsImageTypeAnyType(mime) == Len(mime) = 2

\* file.type.startsWith('image/')
IsImageType(mime) == mime[1] = "image"

MAX_IMAGE_SIZE_MB == 10

Files ==
    { File("small.png", <<"image", "png">>, MAX_IMAGE_SIZE_MB),
      File("huge.png", <<"image", "png">>, MAX_IMAGE_SIZE_MB + 1),
      File("notes.pdf", <<"application", "pdf">>, 1) }

\* an object URL (a non-empty string, so truthy), told apart by its number
ObjectUrl(n) == [type |-> "objecturl", id |-> n]

\* URL.createObjectURL: a URL no live object URL equals
CreateObjectURL ==
    ObjectUrl(CHOOSE n \in 1..(Cardinality(objectUrls) + 1) :
                  ObjectUrl(n) \notin objectUrls)

\* the useState initial values: the state of a freshly mounted FactChecker
FactCheckerMount ==
    /\ inputType' = "text"
    /\ textInput' = <<>>
    /\ urlInput' = <<>>
    /\ selectedFile' = JsNull
    /\ previewUrl' = JsNull
    /\ error' = JsNull

SetInputType(t) ==
    /\ SubmitEnabled
    /\ inputType' = t
    /\ UNCHANGED <<envPassword, sessionAuth, gateVars, homeVars, textInput, urlInput,
                   selectedFile, previewUrl, error, objectUrls, inflight, submitPc>>

SetTextInput(v) ==
    /\ SubmitEnabled
    /\ inputType = "text"
    /\ textInput' = v
    /\ UNCHANGED <<envPassword, sessionAuth, gateVars, homeVars, inputType, urlInput,
                   selectedFile, previewUrl, error, objectUrls, inflight, submitPc>>

SetUrlInput(v) ==
    /\ SubmitEnabled
    /\ inputType = "url"
    /\ urlInput' = v
    /\ UNCHANGED <<envPassword, sessionAuth, gateVars, homeVars, inputType, textInput,
                   selectedFile, previewUrl, error, objectUrls, inflight, submitPc>>

\* onChange of the hidden file input, which the drop zone opens; the drop zone
\* is rendered while no file is selected and the input is disabled while loading.
\* file is JsNull when the event carries no file.
HandleFileSelect(file) ==
    /\ SubmitEnabled
    /\ inputType = "image"
    /\ ~Truthy(selectedFile)
    /\ IF Truthy(file)
       THEN IF ~IsImageType(file.mime)
            THEN /\ error' = JsString(PleaseSelectImageFile)
                 /\ UNCHANGED <<selectedFile, previewUrl, objectUrls>>
            ELSE /\ selectedFile' = file
                 /\ previewUrl' = CreateObjectURL
                 /\ objectUrls' = objectUrls \cup {CreateObjectURL}
                 /\ error' = JsNull
       ELSE UNCHANGED <<selectedFile, previewUrl, objectUrls, error>>
    /\ UNCHANGED <<envPassword, sessionAuth, gateVars, homeVars, inputType, textInput,
                   urlInput, inflight, submitPc>>

\* mutant: clearFile without URL.revokeObjectURL
ClearFileWithNoRevoke(captured) ==
    /\ selectedFile' = JsNull
    /\ IF Truthy(captured)
       THEN /\ objectUrls' = objectUrls
            /\ previewUrl' = JsNull
       ELSE UNCHANGED <<objectUrls, previewUrl>>

\* clearFile as a closure that captured `captured` as its previewUrl
ClearFileWith(captured) ==
    /\ selectedFile' = JsNull
    /\ IF Truthy(captured)
       THEN /\ objectUrls' = objectUrls \ {captured}
            /\ previewUrl' = JsNull
       ELSE UNCHANGED <<objectUrls, previewUrl>>

\* the X button over the preview; it is not disabled while loading
ClearFile ==
    /\ FactCheckerShown
    /\ inputType = "image"
    /\ Truthy(selectedFile)
    /\ ClearFileWith(previewUrl)
    /\ UNCHANGED <<envPassword, sessionAuth, gateVars, homeVars, inputType, textInput,
                   urlInput, error, inflight, submitPc>>

-----------------------------------------------------------------------------
(* lib/api.ts: the requests the client issues *)

TextEndpoint == "/api/fact-check/text"
UrlEndpoint == "/api/fact-check/url"
ImageEndpoint == "/api/fact-check/image"

\* JSON.stringify of an object: properties whose value is undefined are left out
JsonBody(props) ==
    [k \in {p \in DOMAIN props : props[p].type # "undefined"} |-> props[k]]

\* api.post(url, body, headers): the request as it goes on the wire
Post(url, contentType, body) == [url |-> url, contentType |-> contentType, body |-> body]

\* factCheckText(text, context?)
FactCheckTextRequest(text, context) ==
    Post(TextEndpoint, "application/json",
         JsonBody([text |-> JsString(text), context |-> context]))

\* mutant: factCheckURL posts its argument under the name `text`
FactCheckURLRequestTextField(url) ==
    Post(UrlEndpoint, "application/json", JsonBody([text |-> JsString(url)]))

\* factCheckURL(url)
FactCheckURLRequest(url) ==
    Post(UrlEndpoint, "application/json", JsonBody([url |-> JsString(url)]))

\* factCheckImage(file): a FormData with the file appended as `file`
FactCheckImageRequest(file) ==
    Post(ImageEndpoint, "multipart/form-data", [file |-> file])

\* mutant: `return response`
ResponseItself(response) == response

\* `return response.data` of the three functions
ResponseData(response) == response.props.data

\* the input kind an endpoint serves
EndpointKind(url) ==
    CASE url = TextEndpoint -> "text"
      [] url = UrlEndpoint -> "url"
      [] url = ImageEndpoint -> "image"

-----------------------------------------------------------------------------
(* The API server, modelled from the specification *)

FileTooLargeDetail == "File too large"
InvalidInputDetail == "Invalid input"
UpstreamFailureDetail == "Upstream failure"
InvalidResponseDetail == "Invalid response from model"

\* what the LLM call can return: text that is not JSON, or a JSON object
NotJson == [json |-> FALSE]
RawRatings == {-1, 0, 10, 11}
RawConfidences == {0, 100, 101}
LlmFields == FactCheckResultFields \ {"timestamp", "input_type"}

ParsedOutput(r, c) ==
    [rating |-> r, explanation |-> "e", confidence |-> c, analysis |-> "a",
     correct_aspects |-> <<"c">>, incorrect_aspects |-> <<>>,
     sources |-> <<[title |-> "t", url |-> "u", relevance |-> "r"]>>]

Without(props, field) == [k \in DOMAIN props \ {field} |-> props[k]]

RawOutputs ==
    {NotJson}
    \cup {[json |-> TRUE, props |-> ParsedOutput(r, c)] :
              r \in RawRatings, c \in RawConfidences}
    \cup {[json |-> TRUE, props |-> Without(ParsedOutput(10, 100), f)] :
              f \in {"rating", "sources"}}

\* §4.1: required fields and numeric ranges
ValidOutput(raw) ==
    /\ raw.json
    /\ LlmFields \subseteq DOMAIN raw.props
    /\ raw.props.rating \in 0..10
    /\ raw.props.confidence \in 0..100

HttpOk(data) == JsObject([status |-> 200, data |-> JsObject(data)])
HttpError(status, detail) ==
    JsObject([status |-> status, data |-> JsObject([detail |-> JsString(detail)])])

\* §3, §4.1: the record of a validated output, stamped and tagged with the
\* input path; otherwise a structured error
ValidateResult(raw, kind) ==
    IF ValidOutput(raw)
    THEN HttpOk([k \in FactCheckResultFields |->
                    IF k = "timestamp" THEN "now"
                    ELSE IF k = "input_type" THEN kind
                    ELSE raw.props[k]])
    ELSE HttpError(502, InvalidResponseDetail)

\* mutant: the cap compared one megabyte too high
OversizedOffByOne(request) ==
    /\ request.url = ImageEndpoint
    /\ request.body.file.size > MAX_IMAGE_SIZE_MB + 1

\* §6, §8: the size cap of the image endpoint
Oversized(request) ==
    /\ request.url = ImageEndpoint
    /\ request.body.file.size > MAX_IMAGE_SIZE_MB

\* an issued request: where it stands on the server, the response once there is
\* one, and the previewUrl the awaiting handleSubmit closure captured
Pending(request, captured) ==
    [request |-> request, stage |-> "sent", response |-> JsUndefined,
     closurePreviewUrl |-> captured]

Respond(i, response) ==
    inflight' = [inflight EXCEPT ![i].stage = "responded", ![i].response = response]

\* §6, §8: the request arrives; an oversized image is turned away before the
\* prompt is built and the LLM is called
ApiReceive(i, accept) ==
    /\ i \in 1..Len(inflight)
    /\ inflight[i].stage = "sent"
    /\ IF Oversized(inflight[i].request)
       THEN Respond(i, HttpError(413, FileTooLargeDetail))
       ELSE IF ~accept
            THEN Respond(i, HttpError(422, InvalidInputDetail))
            ELSE inflight' = [inflight EXCEPT ![i].stage = "upstream"]
    /\ UNCHANGED <<envPassword, sessionAuth, gateVars, homeVars, formVars, objectUrls,
                   submitPc>>

\* §4.1: the LLM call returns and its output is validated
ApiLlmReturn(i, raw) ==
    /\ i \in 1..Len(inflight)
    /\ inflight[i].stage = "upstream"
    /\ Respond(i, ValidateResult(raw, EndpointKind(inflight[i].request.url)))
    /\ UNCHANGED <<envPassword, sessionAuth, gateVars, homeVars, formVars, objectUrls,
                   submitPc>>

\* §7: the LLM call fails or times out
ApiLlmFail(i) ==
    /\ i \in 1..Len(inflight)
    /\ inflight[i].stage = "upstream"
    /\ Respond(i, HttpError(502, UpstreamFailureDetail))
    /\ UNCHANGED <<envPassword, sessionAuth, gateVars, homeVars, formVars, objectUrls,
                   submitPc>>

-----------------------------------------------------------------------------
(* FactChecker.tsx: handleSubmit *)

\* mutant: the emptiness tests without trim()
SubmitInputEmptyNoTrim ==
    CASE inputType = "text" -> textInput = <<>>
      [] inputType = "url" -> urlInput = <<>>
      [] OTHER -> ~Truthy(selectedFile)

\* the emptiness test of the branch handleSubmit takes
SubmitInputEmpty ==
    CASE inputType = "text" -> Trim(textInput) = <<>>
      [] inputType = "url" -> Trim(urlInput) = <<>>
      [] OTHER -> ~Truthy(selectedFile)

SubmitEmptyMessage ==
    CASE inputType = "text" -> PleaseEnterText
      [] inputType = "url" -> PleaseEnterUrl
      [] OTHER -> PleaseSelectImage

\* mutant: the url branch calls factCheckText
SubmitRequestUrlAsText ==
    CASE inputType = "text" -> FactCheckTextRequest(textInput, JsUndefined)
      [] inputType = "url" -> FactCheckTextRequest(urlInput, JsUndefined)
      [] OTHER -> FactCheckImageRequest(selectedFile)

\* the call of the branch handleSubmit takes
SubmitRequest ==
    CASE inputType = "text" -> FactCheckTextRequest(textInput, JsUndefined)
      [] inputType = "url" -> FactCheckURLRequest(urlInput)
      [] OTHER -> FactCheckImageRequest(selectedFile)

\* click on the submit button: up to the await, or to the early return
HandleSubmit ==
    /\ SubmitEnabled
    /\ Len(inflight) < MaxInFlight
    /\ HandleFactCheckStart
    /\ IF SubmitInputEmpty
       THEN /\ error' = JsString(SubmitEmptyMessage)
            /\ submitPc' = "returned"
            /\ UNCHANGED inflight
       ELSE /\ error' = JsNull
            /\ inflight' = Append(inflight, Pending(SubmitRequest, previewUrl))
            /\ submitPc' = "awaiting"
    /\ UNCHANGED <<envPassword, sessionAuth, gateVars, inputType, textInput, urlInput,
                   selectedFile, previewUrl, objectUrls>>

Remove(seq, i) == SubSeq(seq, 1, i - 1) \o SubSeq(seq, i + 1, Len(seq))

\* the awaited call resolved: the rest of the try block
SubmitResolved(i) ==
    /\ i \in 1..Len(inflight)
    /\ inflight[i].stage = "responded"
    /\ inflight[i].response.props.status = 200
    /\ HandleFactCheckComplete(ResponseData(inflight[i].response))
    /\ textInput' = <<>>
    /\ urlInput' = <<>>
    /\ ClearFileWith(inflight[i].closurePreviewUrl)
    /\ inflight' = Remove(inflight, i)
    /\ submitPc' = "completed"
    /\ UNCHANGED <<envPassword, sessionAuth, gateVars, inputType, error>>

\* mutant: err.data?.detail, the response left out of the path
ErrorMessageWrongPath(err) ==
    OrElse(OptionalChain(OptionalChain(err, "data"), "detail"),
           JsString(FailedToFactCheck))

\* err.response?.data?.detail || 'Failed to fact-check. Please try again.'
ErrorMessage(err) ==
    OrElse(OptionalChain(OptionalChain(OptionalChain(err, "response"), "data"), "detail"),
           JsString(FailedToFactCheck))

\* mutant: the catch block without onFactCheckComplete
SubmitCatchNoComplete(err) ==
    /\ error' = ErrorMessage(err)
    /\ UNCHANGED homeVars
    /\ submitPc' = "caught"

\* the catch block
SubmitCatch(err) ==
    /\ error' = ErrorMessage(err)
    /\ HandleFactCheckComplete(JsObject(EmptyProps))
    /\ submitPc' = "caught"

\* axios rejects a response whose status is not 2xx, with the response attached
SubmitRejected(i) ==
    /\ i \in 1..Len(inflight)
    /\ inflight[i].stage = "responded"
    /\ inflight[i].response.props.status # 200
    /\ SubmitCatch(JsObject([response |-> inflight[i].response]))
    /\ inflight' = Remove(inflight, i)
    /\ UNCHANGED <<envPassword, sessionAuth, gateVars, inputType, textInput, urlInput,
                   selectedFile, previewUrl, objectUrls>>

\* axios rejects without a response (the network failed), or with the response
\* of a gateway that carries no detail
NetworkError == JsObject([message |-> JsString("Network Error")])
GatewayError == JsObject([response |-> JsObject([status |-> 504, data |-> JsString("")])])

SubmitFailed(i, err) ==
    /\ i \in 1..Len(inflight)
    /\ SubmitCatch(err)
    /\ inflight' = Remove(inflight, i)
    /\ UNCHANGED <<envPassword, sessionAuth, gateVars, inputType, textInput, urlInput,
                   selectedFile, previewUrl, objectUrls>>

-----------------------------------------------------------------------------
(* page.tsx: reset; the page as a whole *)

\* mutant: handleReset with the body of handleFactCheckStart
HandleResetStartsLoading ==
    /\ FactCardShown
    /\ result' = JsNull
    /\ isLoading' = TRUE
    /\ FactCheckerMount
    /\ submitPc' = "idle"
    /\ UNCHANGED <<envPassword, sessionAuth, gateVars, objectUrls, inflight>>

\* the "New fact check" button of FactCard; with result null again the page
\* mounts a fresh FactChecker
HandleReset ==
    /\ FactCardShown
    /\ result' = JsNull
    /\ isLoading' = FALSE
    /\ FactCheckerMount
    /\ submitPc' = "idle"
    /\ UNCHANGED <<envPassword, sessionAuth, gateVars, objectUrls, inflight>>

\* the state of a freshly loaded page: every useState at its initial value, no
\* request of the previous document outstanding, its object URLs released
PageLoad ==
    /\ pgIsAuthenticated' = FALSE
    /\ pgPassword' = ""
    /\ pgError' = ""
    /\ pgIsLoading' = TRUE
    /\ result' = JsNull
    /\ isLoading' = FALSE
    /\ FactCheckerMount
    /\ objectUrls' = {}
    /\ inflight' = <<>>
    /\ submitPc' = "idle"

\* the user reloads the page in the same tab: session storage survives
Reload ==
    /\ PageLoad
    /\ UNCHANGED <<envPassword, sessionAuth>>

\* the user opens the page in a new tab: session storage starts empty
NewSession ==
    /\ PageLoad
    /\ sessionAuth' = JsNull
    /\ UNCHANGED envPassword

Init ==
    /\ envPassword \in EnvPasswords
    /\ sessionAuth = JsNull
    /\ pgIsAuthenticated = FALSE
    /\ pgPassword = ""
    /\ pgError = ""
    /\ pgIsLoading = TRUE
    /\ result = JsNull
    /\ isLoading = FALSE
    /\ inputType = "text"
    /\ textInput = <<>>
    /\ urlInput = <<>>
    /\ selectedFile = JsNull
    /\ previewUrl = JsNull
    /\ error = JsNull
    /\ objectUrls = {}
    /\ inflight = <<>>
    /\ submitPc = "idle"

Next ==
    \/ PgMountEffect
    \/ \E p \in Passwords : PgSetPassword(p)
    \/ PgHandleSubmit
    \/ \E t \in InputType : SetInputType(t)
    \/ \E v \in Texts : SetTextInput(v)
    \/ \E v \in Urls : SetUrlInput(v)
    \/ \E f \in Files \cup {JsNull} : HandleFileSelect(f)
    \/ ClearFile
    \/ HandleSubmit
    \/ \E i \in 1..MaxInFlight, accept \in BOOLEAN : ApiReceive(i, accept)
    \/ \E i \in 1..MaxInFlight, raw \in RawOutputs : ApiLlmReturn(i, raw)
    \/ \E i \in 1..MaxInFlight : ApiLlmFail(i)
    \/ \E i \in 1..MaxInFlight : SubmitResolved(i)
    \/ \E i \in 1..MaxInFlight : SubmitRejected(i)
    \/ \E i \in 1..MaxInFlight, err \in {NetworkError, GatewayError} : SubmitFailed(i, err)
    \/ HandleReset
    \/ Reload
    \/ NewSession

Spec == Init /\ [][Next]_vars

-----------------------------------------------------------------------------
(* Properties *)

Indices == 1..Len(inflight)

\* C1: when the awaited fact-check call rejects, the FactChecker form is
\* displayed with its error text set, the page is not loading and the submit
\* button is enabled.
C1_ErrorShownInline ==
    submitPc = "caught" =>
        /\ FactCheckerShown
        /\ Truthy(error)
        /\ ~isLoading
        /\ SubmitEnabled

\* C2: in every reachable state the page's result is null or a record that
\* carries every field of the schema; FactCard is never rendered with less.
C2_ResultNullOrComplete ==
    Truthy(result) =>
        /\ result.type = "object"
        /\ FactCheckResultFields \subseteq DOMAIN result.props

\* C3: while an issued call is neither resolved nor rejected the page is loading
\* and the submit button disabled, so at most one request is in flight.
C3_OneRequestInFlight ==
    /\ Len(inflight) <= 1
    /\ inflight # <<>> => (isLoading /\ ~SubmitEnabled)

C3_Witness ==
    /\ Len(inflight) = 1
    /\ inflight[1].stage = "upstream"
    /\ FactCheckerShown
    /\ isLoading

\* an image request whose file is over the 10 MB cap
OverTheCap(request) ==
    /\ request.url = "/api/fact-check/image"
    /\ request.body.file.size > 10

\* C4 (as stated): selecting or submitting a file larger than the cap never
\* results in a request being sent for it.
C4_NoRequestForOversized ==
    \A i \in Indices : ~OverTheCap(inflight[i].request)

\* C4 (amended): the client selects and posts an oversized image like any other;
\* the API answers it with an error and makes no upstream call for it.
C4_OversizedNeverUpstream ==
    \A i \in Indices :
        OverTheCap(inflight[i].request) =>
            /\ inflight[i].stage # "upstream"
            /\ inflight[i].stage = "responded" =>
                   /\ inflight[i].response.props.status # 200
                   /\ Truthy(ErrorMessage(JsObject([response |-> inflight[i].response])))

C4_Witness ==
    \E i \in Indices :
        /\ OverTheCap(inflight[i].request)
        /\ inflight[i].stage = "responded"
        /\ inflight[i].response.props.status = 413

\* a record whose rating is in [0,10] and whose confidence is in [0,1]
ScoresInRange(v) ==
    /\ v.type = "object"
    /\ {"rating", "confidence"} \subseteq DOMAIN v.props
    /\ v.props.rating >= 0 /\ v.props.rating <= 10
    /\ v.props.confidence >= 0 /\ v.props.confidence <= 100

\* C5: the result the client obtains from factCheckText, and with it the one
\* the page stores and FactCard shows for a text input, has rating in [0,10]
\* and confidence in [0,1].
C5_TextScoresInRange ==
    /\ \A i \in Indices :
           ( /\ inflight[i].request.url = "/api/fact-check/text"
             /\ inflight[i].stage = "responded"
             /\ inflight[i].response.props.status = 200 )
           => ScoresInRange(ResponseData(inflight[i].response))
    /\ (submitPc = "completed" /\ inputType = "text") => ScoresInRange(result)
    /\ (FactCardShown /\ inputType = "text") => ScoresInRange(result)

C5_Witness ==
    /\ FactCardShown
    /\ submitPc = "completed"
    /\ inputType = "text"
    /\ result.props.rating = 10
    /\ result.props.confidence = 0

\* C6: the input_type of a result is the kind of the endpoint it came through,
\* so the tag FactCard shows is the input kind the user submitted.
C6_InputTypeMatchesEndpoint ==
    /\ \A i \in Indices :
           (inflight[i].stage = "responded" /\ inflight[i].response.props.status = 200)
           => \/ /\ inflight[i].request.url = "/api/fact-check/text"
                 /\ ResponseData(inflight[i].response).props.input_type = "text"
              \/ /\ inflight[i].request.url = "/api/fact-check/url"
                 /\ ResponseData(inflight[i].response).props.input_type = "url"
              \/ /\ inflight[i].request.url = "/api/fact-check/image"
                 /\ ResponseData(inflight[i].response).props.input_type = "image"
    /\ \A i \in Indices :
           inflight[i].request.url =
               (CASE inputType = "text" -> "/api/fact-check/text"
                  [] inputType = "url" -> "/api/fact-check/url"
                  [] inputType = "image" -> "/api/fact-check/image")
    /\ FactCardShown => result.props.input_type = inputType

C6_Witness ==
    /\ FactCardShown
    /\ inputType = "image"
    /\ result.props.input_type = "image"

\* the request the selected input kind calls for
ExpectedRequest ==
    CASE inputType = "text" ->
             [url |-> "/api/fact-check/text", contentType |-> "application/json",
              body |-> [text |-> JsString(textInput)]]
      [] inputType = "url" ->
             [url |-> "/api/fact-check/url", contentType |-> "application/json",
              body |-> [url |-> JsString(urlInput)]]
      [] inputType = "image" ->
             [url |-> "/api/fact-check/image", contentType |-> "multipart/form-data",
              body |-> [file |-> selectedFile]]

SelectedInputEmpty ==
    CASE inputType = "text" -> \A k \in DOMAIN textInput : textInput[k] = " "
      [] inputType = "url" -> \A k \in DOMAIN urlInput : urlInput[k] = " "
      [] inputType = "image" -> selectedFile = JsNull

\* C7: a submit with a non-empty input issues exactly one request, to the
\* endpoint of the selected kind and with that kind's payload alone.
C7_OneRequestPerSubmit ==
    [][ /\ (~isLoading /\ isLoading' /\ ~SelectedInputEmpty) =>
               /\ Len(inflight') = Len(inflight) + 1
               /\ SubSeq(inflight', 1, Len(inflight)) = inflight
               /\ inflight'[Len(inflight')].request = ExpectedRequest
               /\ inflight'[Len(inflight')].stage = "sent"
        /\ Len(inflight') > Len(inflight) =>
               (~isLoading /\ isLoading' /\ ~SelectedInputEmpty) ]_vars

C7_Witness ==
    /\ Len(inflight) = 1
    /\ inflight[1].stage = "sent"
    /\ inflight[1].request.url = "/api/fact-check/image"
    /\ inflight[1].request.body = [file |-> selectedFile]
    /\ textInput # <<>>
    /\ urlInput # <<>>

\* the configured password: NEXT_PUBLIC_APP_PASSWORD, or the default when unset
ConfiguredPassword == IF envPassword = "" THEN DefaultPassword ELSE envPassword

\* C8: the gate shows its children only when authenticated, never before the
\* mount-time storage check is done, and becomes authenticated only by finding
\* 'true' under the storage key at mount or by a submitted password equal to
\* the configured one.
C8_GateOpensOnlyWhenAuthenticated ==
    /\ [](ChildrenShown => (pgIsAuthenticated /\ ~pgIsLoading /\ sessionAuth = JsString("true")))
    /\ [](pgIsLoading => (~pgIsAuthenticated /\ ~PageShown))
    /\ [][ (~pgIsAuthenticated /\ pgIsAuthenticated') =>
               \/ pgIsLoading /\ sessionAuth = JsString("true")
               \/ ~pgIsLoading /\ pgPassword = ConfiguredPassword ]_vars
    /\ [][ (~pgIsLoading /\ ~pgIsAuthenticated /\ pgPassword # ConfiguredPassword) =>
               (~pgIsAuthenticated' /\ sessionAuth' # JsString("true")) ]_vars

C8_Witness ==
    /\ ChildrenShown
    /\ FactCheckerShown
    /\ envPassword = "hunter2"
    /\ pgPassword = "hunter2"

\* C9: once a correct password was submitted the storage key holds 'true' for
\* the rest of the session, and every later mount of the gate in that session
\* becomes authenticated with no password entered.
C9_SessionScopedFlag ==
    /\ [](pgIsAuthenticated => sessionAuth = JsString("true"))
    /\ [][ (sessionAuth = JsString("true") /\ ~NewSession) =>
               sessionAuth' = JsString("true") ]_vars
    /\ [][ (pgIsLoading /\ ~pgIsLoading' /\ sessionAuth = JsString("true")) =>
               (pgIsAuthenticated' /\ pgPassword' = "" /\ ChildrenShown') ]_vars

C9_Witness ==
    /\ ChildrenShown
    /\ pgPassword = ""
    /\ sessionAuth = JsString("true")

\* C10: handleReset leaves the page with no result and not loading, the card
\* gone and the form back with empty text, URL and file inputs; a result
\* appears again only as the outcome of a request.
C10_ResetDiscardsResult ==
    /\ [][ HandleReset =>
               /\ result' = JsNull
               /\ ~isLoading'
               /\ ~FactCardShown'
               /\ FactCheckerShown'
               /\ textInput' = <<>>
               /\ urlInput' = <<>>
               /\ selectedFile' = JsNull
               /\ previewUrl' = JsNull ]_vars
    /\ [][ (~Truthy(result) /\ Truthy(result')) =>
               (inflight # <<>> /\ Len(inflight') = Len(inflight) - 1) ]_vars

C10_Witness ==
    /\ FactCardShown
    /\ submitPc = "completed"
    /\ ENABLED HandleReset

\* the requests in flight, without the server's progress on them
Requests(pending) == [i \in DOMAIN pending |-> pending[i].request]

\* C11: an issued request is never aborted or replaced from the UI: while the
\* page stays loaded the requests in flight stay the same until one settles,
\* the loading state ends only with such a settling, and every settling hands
\* its outcome to onFactCheckComplete (result set, loading ended).
C11_NoCancellation ==
    [][ (inflight # <<>> /\ ~pgIsLoading') =>
            /\ \/ Requests(inflight') = Requests(inflight)
               \/ /\ Len(inflight') = Len(inflight) - 1
                  /\ ~isLoading'
                  /\ result'.type = "object"
            /\ (isLoading /\ ~isLoading') => Len(inflight') = Len(inflight) - 1 ]_vars

C11_Witness ==
    /\ Len(inflight) = 1
    /\ inflight[1].request.url = "/api/fact-check/image"
    /\ inflight[1].stage = "upstream"
    /\ selectedFile = JsNull
    /\ isLoading

\* C12: every handleSubmit call leaves the loading state behind: once the call
\* has run to its end (returned early on an empty input, completed, or caught
\* an error) the page is not loading.
C12_SubmitLeavesLoading ==
    submitPc \in {"returned", "completed", "caught"} => ~isLoading

\* C13: a submit whose selected input is empty (text or URL empty or only white
\* space, no image selected) issues no request and sets the error message of
\* the selected kind.
C13_EmptyInputNotSent ==
    [][ (~isLoading /\ isLoading' /\ SelectedInputEmpty) =>
            /\ inflight' = inflight
            /\ error' =
                   (CASE inputType = "text" -> JsString("Please enter some text to fact-check")
                      [] inputType = "url" -> JsString("Please enter a URL to fact-check")
                      [] inputType = "image" -> JsString("Please select an image to fact-check")) ]_vars

C13_Witness ==
    /\ submitPc = "returned"
    /\ inputType = "url"
    /\ urlInput = <<" ">>
    /\ error = JsString("Please enter a URL to fact-check")
    /\ inflight = <<>>

\* C14: on a rejected call the error text is the detail string of the HTTP
\* error body when there is one and the fixed fallback otherwise (no response,
\* or a body without detail); a submit that issues a call clears the error.
C14_ErrorTextOfRejection ==
    /\ [][ \A i \in Indices :
               SubmitRejected(i) =>
                   /\ inflight[i].response.props.data.props.detail.value # ""
                   /\ error' = inflight[i].response.props.data.props.detail ]_vars
    /\ [][ \A i \in Indices :
               (SubmitFailed(i, NetworkError) \/ SubmitFailed(i, GatewayError)) =>
                   error' = JsString("Failed to fact-check. Please try again.") ]_vars
    /\ [][ (~isLoading /\ isLoading' /\ ~SelectedInputEmpty) => error' = JsNull ]_vars

C14_Witness ==
    /\ submitPc = "caught"
    /\ error = JsString("Upstream failure")
    /\ inflight = <<>>

\* C15: submitting a password other than the configured one keeps the gate
\* locked: isAuthenticated stays false, session storage is not written, the
\* error becomes 'Incorrect password. Please try again.' and the field is
\* cleared; a correct submission, also after a wrong one, clears the error and
\* authenticates.
C15_WrongPasswordKeepsLocked ==
    [][ PgHandleSubmit =>
            IF pgPassword = ConfiguredPassword
            THEN /\ pgIsAuthenticated'
                 /\ pgError' = ""
                 /\ sessionAuth' = JsString("true")
            ELSE /\ ~pgIsAuthenticated'
                 /\ sessionAuth' = sessionAuth
                 /\ pgError' = "Incorrect password. Please try again."
                 /\ pgPassword' = "" ]_vars

C15_Witness ==
    /\ PasswordFormShown
    /\ pgError = "Incorrect password. Please try again."
    /\ pgPassword = ConfiguredPassword
    /\ sessionAuth = JsNull

\* C16: handleFileSelect with a file that is not image/* sets the error
\* 'Please select an image file' and leaves selectedFile and previewUrl alone;
\* with an image it sets selectedFile, creates a preview URL and clears the
\* error; with no file it changes nothing.
C16_FileSelectAcceptsImagesOnly ==
    [][ \A f \in Files \cup {JsNull} :
            HandleFileSelect(f) =>
                IF f = JsNull
                THEN UNCHANGED <<selectedFile, previewUrl, error, objectUrls>>
                ELSE IF f.mime[1] # "image"
                     THEN /\ error' = JsString("Please select an image file")
                          /\ UNCHANGED <<selectedFile, previewUrl, objectUrls>>
                     ELSE /\ selectedFile' = f
                          /\ previewUrl'.type = "objecturl"
                          /\ previewUrl' \notin objectUrls
                          /\ objectUrls' = objectUrls \cup {previewUrl'}
                          /\ error' = JsNull ]_vars

C16_Witness ==
    /\ FactCheckerShown
    /\ inputType = "image"
    /\ error = JsString("Please select an image file")
    /\ selectedFile = JsNull
    /\ previewUrl = JsNull

-----------------------------------------------------------------------------
(* FactCard.tsx: the colour and the label of a rating *)

\* Ratings are numbers; every threshold below is an integer and every test is
\* `rating >= k`, which a number passes exactly when its integer part does, so
\* the integers 0..10 stand for all ratings in [0,10].
RatingInputs == 0..10
ConfidenceInputs == {0, 50, 100}

\* mutant: the comparisons written with > for >=
GetRatingColorStrict(rating) ==
    IF rating > 8 THEN "text-green-500"
    ELSE IF rating > 5 THEN "text-yellow-500"
    ELSE "text-red-500"

GetRatingColor(rating) ==
    IF rating >= 8 THEN "text-green-500"
    ELSE IF rating >= 5 THEN "text-yellow-500"
    ELSE "text-red-500"

\* mutant: the comparisons written with > for >=
GetRatingLabelStrict(rating) ==
    IF rating > 8 THEN "Highly Accurate"
    ELSE IF rating > 6 THEN "Mostly Accurate"
    ELSE IF rating > 4 THEN "Mixed"
    ELSE "Inaccurate"

GetRatingLabel(rating) ==
    IF rating >= 8 THEN "Highly Accurate"
    ELSE IF rating >= 6 THEN "Mostly Accurate"
    ELSE IF rating >= 4 THEN "Mixed"
    ELSE "Inaccurate"

\* what the rating section of the card renders for the stored result
CardRatingColor == GetRatingColor(result.props.rating)
CardRatingLabel == GetRatingLabel(result.props.rating)

\* The page with one call answered and not yet delivered, for every rating,
\* confidence and input kind a validated response can carry: the state in
\* which handleSubmit is about to resume after its await.
CardInit ==
    /\ envPassword \in EnvPasswords
    /\ sessionAuth = STORAGE_KEY_VALUE
    /\ pgIsAuthenticated = TRUE
    /\ pgPassword = CorrectPassword
    /\ pgError = ""
    /\ pgIsLoading = FALSE
    /\ result = JsNull
    /\ isLoading = TRUE
    /\ inputType \in InputType
    /\ textInput = (IF inputType = "text" THEN <<"a">> ELSE <<>>)
    /\ urlInput = (IF inputType = "url" THEN <<"a">> ELSE <<>>)
    /\ selectedFile =
           (IF inputType = "image"
            THEN File("small.png", <<"image", "png">>, MAX_IMAGE_SIZE_MB) ELSE JsNull)
    /\ previewUrl = (IF inputType = "image" THEN ObjectUrl(1) ELSE JsNull)
    /\ error = JsNull
    /\ objectUrls = (IF inputType = "image" THEN {ObjectUrl(1)} ELSE {})
    /\ \E r \in RatingInputs, c \in ConfidenceInputs :
           inflight =
               << [Pending(SubmitRequest, previewUrl) EXCEPT
                       !.stage = "responded",
                       !.response =
                           ValidateResult([json |-> TRUE, props |-> ParsedOutput(r, c)],
                                          inputType)] >>
    /\ submitPc = "awaiting"

CardSpec == CardInit /\ [][Next]_vars

LabelRank(label) ==
    CASE label = "Inaccurate" -> 0
      [] label = "Mixed" -> 1
      [] label = "Mostly Accurate" -> 2
      [] label = "Highly Accurate" -> 3

ColorRank(color) ==
    CASE color = "text-red-500" -> 0
      [] color = "text-yellow-500" -> 1
      [] color = "text-green-500" -> 2

\* C17: getRatingLabel is 'Highly Accurate' from 8, 'Mostly Accurate' on [6,8),
\* 'Mixed' on [4,6) and 'Inaccurate' below 4; getRatingColor is green from 8,
\* yellow on [5,8) and red below 5; both are defined and monotone on 0..10, and
\* the card shows them for the rating of its result.
C17_RatingBands ==
    /\ \A r \in 0..10 :
           /\ (r >= 8) <=> (GetRatingLabel(r) = "Highly Accurate")
           /\ (6 <= r /\ r < 8) <=> (GetRatingLabel(r) = "Mostly Accurate")
           /\ (4 <= r /\ r < 6) <=> (GetRatingLabel(r) = "Mixed")
           /\ (r < 4) <=> (GetRatingLabel(r) = "Inaccurate")
           /\ (r >= 8) <=> (GetRatingColor(r) = "text-green-500")
           /\ (5 <= r /\ r < 8) <=> (GetRatingColor(r) = "text-yellow-500")
           /\ (r < 5) <=> (GetRatingColor(r) = "text-red-500")
    /\ \A a, b \in 0..10 :
           a <= b => /\ LabelRank(GetRatingLabel(a)) <= LabelRank(GetRatingLabel(b))
                     /\ ColorRank(GetRatingColor(a)) <= ColorRank(GetRatingColor(b))
    /\ FactCardShown =>
           /\ CardRatingLabel =
                  (IF result.props.rating >= 8 THEN "Highly Accurate"
                   ELSE IF result.props.rating >= 6 THEN "Mostly Accurate"
                   ELSE IF result.props.rating >= 4 THEN "Mixed"
                   ELSE "Inaccurate")
           /\ CardRatingColor =
                  (IF result.props.rating >= 8 THEN "text-green-500"
                   ELSE IF result.props.rating >= 5 THEN "text-yellow-500"
                   ELSE "text-red-500")

C17_Witness ==
    /\ FactCardShown
    /\ result.props.rating = 7
    /\ CardRatingLabel = "Mostly Accurate"
    /\ CardRatingColor = "text-yellow-500"

\* C18: with NEXT_PUBLIC_APP_PASSWORD unset, the password that unlocks the gate
\* is "mistral2024", as the comment in handleSubmit says: submitting exactly
\* that string authenticates.
C18_DocumentedPasswordUnlocks ==
    [][ (PgHandleSubmit /\ envPassword = "" /\ pgPassword = "mistral2024") =>
            pgIsAuthenticated' ]_vars

\* C19 (as stated): the colour and the label of the rating shown agree on the
\* band: green exactly when 'Highly Accurate', red exactly when 'Inaccurate'.
C19_ColorAndLabelAgree ==
    FactCardShown =>
        /\ (CardRatingColor = "text-green-500") <=> (CardRatingLabel = "Highly Accurate")
        /\ (CardRatingColor = "text-red-500") <=> (CardRatingLabel = "Inaccurate")

\* C19 (amended): green exactly when 'Highly Accurate'; 'Inaccurate' is always
\* red, and red is shown exactly below 5, that is for 'Inaccurate' and for the
\* 'Mixed' ratings in [4,5).
C19_ColorAndLabelBands ==
    /\ \A r \in 0..10 :
           /\ (GetRatingColor(r) = "text-green-500") <=> (GetRatingLabel(r) = "Highly Accurate")
           /\ (GetRatingLabel(r) = "Inaccurate") => (GetRatingColor(r) = "text-red-500")
           /\ (GetRatingColor(r) = "text-red-500") <=>
                  (GetRatingLabel(r) = "Inaccurate" \/ (GetRatingLabel(r) = "Mixed" /\ r < 5))
    /\ FactCardShown =>
           /\ (CardRatingColor = "text-green-500") <=> (CardRatingLabel = "Highly Accurate")
           /\ (CardRatingLabel = "Inaccurate") => (CardRatingColor = "text-red-500")
           /\ (CardRatingColor = "text-red-500") <=>
                  \/ CardRatingLabel = "Inaccurate"
                  \/ (CardRatingLabel = "Mixed" /\ result.props.rating < 5)

C19_Witness ==
    /\ FactCardShown
    /\ result.props.rating = 4
    /\ CardRatingColor = "text-red-500"
    /\ CardRatingLabel = "Mixed"

\* the three branches of Home's conditional rendering, by the state they test
FormAlone == FactCheckerShown /\ ~LoadingShown /\ ~FactCardShown
FormWithSpinner == FactCheckerShown /\ LoadingShown /\ ~FactCardShown
CardAlone == FactCardShown /\ ~FactCheckerShown /\ ~LoadingShown

\* C20: a result and the loading flag never hold together, so a page on display
\* shows exactly one of: the input form alone, the input form with the loading
\* spinner, or the result card; the card and the form are never shown together.
C20_OneViewActive ==
    /\ ~(Truthy(result) /\ isLoading)
    /\ ~(FactCardShown /\ FactCheckerShown)
    /\ PageShown =>
           /\ FormAlone \/ FormWithSpinner \/ CardAlone
           /\ ~(FormAlone /\ FormWithSpinner)
           /\ ~(FormAlone /\ CardAlone)
           /\ ~(FormWithSpinner /\ CardAlone)
           /\ FormAlone <=> (~Truthy(result) /\ ~isLoading)
           /\ FormWithSpinner <=> (~Truthy(result) /\ isLoading)
           /\ CardAlone <=> (Truthy(result) /\ ~isLoading)

\* the form with the spinner, the answer of the call about to be delivered
C20_Witness ==
    /\ FormWithSpinner
    /\ Len(inflight) = 1
    /\ inflight[1].stage = "responded"
    /\ Truthy(ResponseData(inflight[1].response))

\* the preview <img src={previewUrl!}> is rendered in the image tab while a file
\* is selected
PreviewImageShown == FactCheckerShown /\ inputType = "image" /\ Truthy(selectedFile)

\* a step in which clearFile runs: the X button, or the end of handleSubmit's
\* try block
ClearFileRuns == ClearFile \/ \E i \in 1..MaxInFlight : SubmitResolved(i)

\* C21: after any sequence of handleFileSelect, clearFile and handleSubmit a file
\* is selected exactly when there is a preview URL, so the preview image never
\* has a null source; and a clearFile that removes the preview URL leaves that
\* URL revoked.
C21_FileAndPreviewTogether ==
    /\ [](Truthy(selectedFile) <=> Truthy(previewUrl))
    /\ [](PreviewImageShown => Truthy(previewUrl))
    /\ [][(ClearFileRuns /\ Truthy(previewUrl) /\ ~Truthy(previewUrl'))
              => previewUrl \notin objectUrls']_vars

\* an image was submitted with its preview on display and the X button was
\* clicked while the call is in flight: the file and the preview are gone and
\* the URL the call's closure still holds is revoked
C21_Witness ==
    /\ Len(inflight) = 1
    /\ Truthy(inflight[1].closurePreviewUrl)
    /\ inflight[1].closurePreviewUrl \notin objectUrls
    /\ ~Truthy(selectedFile)
    /\ ~Truthy(previewUrl)
    /\ FactCheckerShown

====
